---- MODULE Spec2Model ----
(***************************************************************************)
(* Model of check_fr24feed.py: one invocation of the monitoring plugin.   *)
(* The process parses its command line, issues one HTTP GET against the    *)
(* feeder's /monitor.json, extracts freshness, metrics and status, compares*)
(* the elapsed seconds with the thresholds, prints one result and exits.   *)
(*                                                                         *)
(* Text is modelled as a sequence of string tokens; print() appends one    *)
(* text to stdout.  JSON values are records [k, v, s] where k is the JSON  *)
(* type ("int", "str"), v the integer and s the string payload.  Time is   *)
(* counted in ticks of 1/Res second, so that utcnow() carries a sub-second *)
(* part while Unix timestamps are whole seconds.                           *)
(***************************************************************************)
EXTENDS Integers, Sequences, FiniteSets, TLC

VARIABLES pc, args, http, response, now, diffSecs, metrics, status,
          stdout, exits, httpGets, steps, failure, branch

vars == <<pc, args, http, response, now, diffSecs, metrics, status,
          stdout, exits, httpGets, steps, failure, branch>>

(***************************************************************************)
(* Bounds of the model                                                     *)
(***************************************************************************)
\* sub-second resolution of utcnow(): ticks per second
Res == 2
\* whole-second part of the wall clock at the time of the run
NowSec == 100000

(***************************************************************************)
(* Program constants                                                       *)
(***************************************************************************)
DEFAULT_PORT == "8754"
DEFAULT_WARN == 600
DEFAULT_CRIT == 3600
STATE_OK == 0
STATE_WARN == 1
STATE_CRIT == 2
STATE_UNKNOWN == 3
SecondsPerDay == 86400
\* exit status argparse uses for -V/--version (parser.exit())
ArgparseVersionExit == 0
\* exit status argparse uses for a usage error (parser.error())
ArgparseErrorExit == 2

(***************************************************************************)
(* JSON / Python values                                                    *)
(***************************************************************************)
JInt(n) == [k |-> "int", v |-> n, s |-> ""]
JStr(t) == [k |-> "str", v |-> 0, s |-> t]
None == [k |-> "none", v |-> 0, s |-> ""]
Absent == [k |-> "absent", v |-> 0, s |-> ""]

\* integers whose decimal text the model's inputs may carry
Parsable == {NowSec - 4000, NowSec - 500}

\* str(x) / "{}".format(x)
PyStr(x) == IF x.k = "int" THEN ToString(x.v) ELSE x.s

\* int(x): an int is itself, a string is parsed as a decimal, anything else
\* (or a string that is no decimal) raises
PyInt(x) ==
    IF x.k = "int" THEN [ok |-> TRUE, v |-> x.v]
    ELSE IF x.k = "str" /\ \E n \in Parsable : ToString(n) = x.s
         THEN [ok |-> TRUE, v |-> CHOOSE n \in Parsable : ToString(n) = x.s]
         ELSE [ok |-> FALSE, v |-> 0]

Whitespace == {" ", "\n", "\t", ""}

RECURSIVE LStrip(_)
LStrip(t) == IF t # <<>> /\ Head(t) \in Whitespace THEN LStrip(Tail(t)) ELSE t

RECURSIVE RStrip(_)
RStrip(t) ==
    IF t # <<>> /\ t[Len(t)] \in Whitespace
    THEN RStrip(SubSeq(t, 1, Len(t) - 1))
    ELSE t

\* str.strip()
Strip(t) == RStrip(LStrip(t))

(***************************************************************************)
(* Common functions (lines 68-151)                                         *)
(***************************************************************************)
\* an optional perfdata component: appended as str(x) unless it is None
Opt(x) == IF x.k = "none" THEN <<>> ELSE <<PyStr(x)>>

\* 'label'=value[UOM];[warn];[crit];[min];[max] followed by one blank
get_perfdata(label, value, uom, warn, crit, min, max) ==
    <<"'", label, "'=", PyStr(value)>> \o Opt(uom) \o <<";">> \o Opt(warn)
        \o <<";">> \o Opt(crit) \o <<";">> \o Opt(min) \o <<";">> \o Opt(max)
        \o <<" ">>

\* Over and Out: the text printed and the status the process exits with
oao(msg, state, perfdata, always_ok) ==
    [out  |-> IF perfdata # <<>>
              THEN Strip(msg) \o <<"|">> \o Strip(perfdata)
              ELSE Strip(msg),
     code |-> IF always_ok THEN 0 ELSE state]

\* Continue or Exit: on a failed result print its message and exit with state
coe(result, state) ==
    IF result.ok
    THEN [exit |-> FALSE, out |-> <<>>, code |-> 0]
    ELSE [exit |-> TRUE, out |-> result.err, code |-> state]

(***************************************************************************)
(* Command line (lines 156-206)                                            *)
(***************************************************************************)
\* (warning, critical) pairs: the defaults, the pair inverted, and equal ones
Thresholds == {<<DEFAULT_WARN, DEFAULT_CRIT>>, <<DEFAULT_CRIT, DEFAULT_WARN>>,
               <<DEFAULT_WARN, DEFAULT_WARN>>}

\* what argparse makes of the command line: the version action, a usage
\* error (missing --host, a non-integer threshold), or a namespace
CmdLines ==
    {[kind |-> "version", ALWAYS_OK |-> FALSE, HOST_IP |-> "", HOST_PORT |-> "",
      WARN |-> 0, CRIT |-> 0],
     [kind |-> "error", ALWAYS_OK |-> FALSE, HOST_IP |-> "", HOST_PORT |-> "",
      WARN |-> 0, CRIT |-> 0]}
    \cup {[kind |-> "ok", ALWAYS_OK |-> b, HOST_IP |-> "feeder",
            HOST_PORT |-> DEFAULT_PORT, WARN |-> t[1], CRIT |-> t[2]] :
              b \in BOOLEAN, t \in Thresholds}

NoArgs == [kind |-> "none", ALWAYS_OK |-> FALSE, HOST_IP |-> "", HOST_PORT |-> "",
           WARN |-> 0, CRIT |-> 0]

\* '%(prog)s: v{} by {}'
VersionText == <<"check_fr24feed.py", ": v", "2022031701", " by ", "Andreas Bucher">>

\* parse_args(): the namespace, or the SystemExit argparse raises (with what
\* it wrote to stdout first)
parse_args(cmd) ==
    CASE cmd.kind = "version" ->
            [exit |-> TRUE, code |-> ArgparseVersionExit, out |-> <<VersionText>>]
      [] cmd.kind = "error" ->
            [exit |-> TRUE, code |-> ArgparseErrorExit, out |-> <<>>]
      [] OTHER -> [exit |-> FALSE, code |-> 0, out |-> <<>>]

(***************************************************************************)
(* The monitor endpoint and the extraction steps (lines 209-278)           *)
(***************************************************************************)
Keys == {"feed_last_ac_sent_time", "feed_num_ac_adsb_tracked",
         "feed_num_ac_non_adsb_tracked", "feed_num_ac_tracked", "feed_status",
         "last_rx_connect_status", "feed_last_connected_time"}

\* elapsed whole seconds the last-sent timestamps of the model lie in the past
PastSecs == {100, DEFAULT_WARN, DEFAULT_WARN + 1, DEFAULT_CRIT, DEFAULT_CRIT + 1,
             SecondsPerDay + DEFAULT_WARN + 1}
\* whole seconds the last-sent timestamps of the model lie in the future
FutureSecs == {DEFAULT_WARN + 1, DEFAULT_CRIT + 1}

FieldValues(key) ==
    CASE key = "feed_last_ac_sent_time" ->
            {Absent, JStr("n/a"), JStr(ToString(NowSec - 4000))}
              \cup {JInt(NowSec - e) : e \in PastSecs}
              \cup {JInt(NowSec + e) : e \in FutureSecs}
      [] key = "feed_num_ac_adsb_tracked" -> {Absent, JInt(5), JStr("n/a")}
      [] key = "feed_num_ac_non_adsb_tracked" -> {Absent, JInt(2)}
      [] key = "feed_num_ac_tracked" -> {Absent, JInt(7)}
      [] key = "feed_status" -> {Absent, JStr("connected"), JInt(1)}
      [] key = "last_rx_connect_status" -> {Absent, JStr("OK")}
      [] key = "feed_last_connected_time" ->
            {Absent, JInt(NowSec - 500), JStr("n/a")}

\* decoded JSON bodies: objects over the consumed keys, and a JSON array
Objects ==
    [feed_last_ac_sent_time : FieldValues("feed_last_ac_sent_time"),
     feed_num_ac_adsb_tracked : FieldValues("feed_num_ac_adsb_tracked"),
     feed_num_ac_non_adsb_tracked : FieldValues("feed_num_ac_non_adsb_tracked"),
     feed_num_ac_tracked : FieldValues("feed_num_ac_tracked"),
     feed_status : FieldValues("feed_status"),
     last_rx_connect_status : FieldValues("last_rx_connect_status"),
     feed_last_connected_time : FieldValues("feed_last_connected_time")]
NoFields == [k \in Keys |-> Absent]
Bodies == [kind : {"object"}, f : Objects] \cup {[kind |-> "array", f |-> NoFields]}
NoBody == [kind |-> "none", f |-> NoFields]

\* what the GET does: requests.get raises, j.json() raises, or a decoded body
HttpOutcomes ==
    {[kind |-> "refused", body |-> NoBody], [kind |-> "notjson", body |-> NoBody]}
    \cup [kind : {"json"}, body : Bodies]
NoHttp == [kind |-> "none", body |-> NoBody]

\* "An exception of type {0} occurred. Arguments:\n{1!r}"
ExceptionText(type, argsrepr) ==
    <<"An exception of type ", type, " occurred. Arguments:\n", argsrepr>>

run_monitor_check(outcome) ==
    CASE outcome.kind = "refused" ->
            [ok |-> FALSE, err |-> ExceptionText("ConnectionError", "(...)"),
             val |-> NoBody]
      [] outcome.kind = "notjson" ->
            [ok |-> FALSE, err |-> ExceptionText("JSONDecodeError", "(...)"),
             val |-> NoBody]
      [] OTHER -> [ok |-> TRUE, err |-> <<>>, val |-> outcome.body]

\* data[key]: raises on a missing key and on a body that is no object
Lookup(data, key) ==
    IF data.kind = "object" /\ data.f[key].k # "absent"
    THEN [ok |-> TRUE, v |-> data.f[key]]
    ELSE [ok |-> FALSE, v |-> Absent]

\* a datetime.timedelta of the given ticks, normalised as Python does
TimeDelta(ticks) ==
    [days    |-> ticks \div (SecondsPerDay * Res),
     seconds |-> (ticks % (SecondsPerDay * Res)) \div Res,
     micro   |-> ticks % Res]

SignedDelta(ticks) == ticks

\* abs(now - lastsentTime), in ticks
AbsDelta(ticks) == IF ticks < 0 THEN 0 - ticks ELSE ticks

\* abs(now - last).days * 24 * 60 * 60 + abs(now - last).seconds
DiffInSecs(nowTicks, unix) ==
    TimeDelta(AbsDelta(nowTicks - unix * Res)).days * 24 * 60 * 60
      + TimeDelta(AbsDelta(nowTicks - unix * Res)).seconds

get_sec_last_status(data, nowTicks) ==
    LET f == Lookup(data, "feed_last_ac_sent_time")
        n == PyInt(f.v)
    IN  IF f.ok /\ n.ok
        THEN [ok |-> TRUE, err |-> <<>>, val |-> DiffInSecs(nowTicks, n.v)]
        ELSE [ok |-> FALSE, err |-> <<"ValueError: Last Status could not be parsed">>,
              val |-> 0]

NoMetrics == [adsb_tracked |-> Absent, non_adsb_tracked |-> Absent,
              sum_tracked |-> Absent]

get_metrics_wrong_text(data) ==
    LET a == Lookup(data, "feed_num_ac_adsb_tracked")
        b == Lookup(data, "feed_num_ac_non_adsb_tracked")
        c == Lookup(data, "feed_num_ac_tracked")
    IN  IF a.ok /\ b.ok /\ c.ok
        THEN [ok |-> TRUE, err |-> <<>>,
              val |-> [adsb_tracked |-> a.v, non_adsb_tracked |-> b.v,
                       sum_tracked |-> c.v]]
        ELSE [ok |-> FALSE, err |-> <<"ValueError: Status could not be parsed">>,
              val |-> NoMetrics]

get_metrics(data) ==
    LET a == Lookup(data, "feed_num_ac_adsb_tracked")
        b == Lookup(data, "feed_num_ac_non_adsb_tracked")
        c == Lookup(data, "feed_num_ac_tracked")
    IN  IF a.ok /\ b.ok /\ c.ok
        THEN [ok |-> TRUE, err |-> <<>>,
              val |-> [adsb_tracked |-> a.v, non_adsb_tracked |-> b.v,
                       sum_tracked |-> c.v]]
        ELSE [ok |-> FALSE, err |-> <<"ValueError: Metrics could not be parsed">>,
              val |-> NoMetrics]

\* utcfromtimestamp(t).strftime("%Y-%m-%d %H:%M:%S"), kept symbolic
FormatUTC(t) == "strftime(%Y-%m-%d %H:%M:%S, " \o ToString(t) \o ")"

NoStatus == [feed_status |-> Absent, last_rx_connect_status |-> Absent,
             feed_last_connected_time |-> ""]

get_status_lenient(data) ==
    LET a == Lookup(data, "feed_status")
        b == Lookup(data, "last_rx_connect_status")
        c == Lookup(data, "feed_last_connected_time")
        n == PyInt(c.v)
    IN  [ok |-> TRUE, err |-> <<>>,
         val |-> [feed_status |-> IF a.ok THEN a.v ELSE JStr(""),
                  last_rx_connect_status |-> IF b.ok THEN b.v ELSE JStr(""),
                  feed_last_connected_time |->
                      IF c.ok /\ n.ok THEN FormatUTC(n.v) ELSE ""]]

get_status(data) ==
    LET a == Lookup(data, "feed_status")
        b == Lookup(data, "last_rx_connect_status")
        c == Lookup(data, "feed_last_connected_time")
        n == PyInt(c.v)
    IN  IF a.ok /\ b.ok /\ c.ok /\ n.ok
        THEN [ok |-> TRUE, err |-> <<>>,
              val |-> [feed_status |-> a.v, last_rx_connect_status |-> b.v,
                       feed_last_connected_time |-> FormatUTC(n.v)]]
        ELSE [ok |-> FALSE, err |-> <<"ValueError: Status could not be parsed">>,
              val |-> NoStatus]

(***************************************************************************)
(* main() (lines 282-332)                                                  *)
(***************************************************************************)
ExitOnSystemExit_passthrough(code) == code

\* except SystemExit: sys.exit(STATE_UNKNOWN), whatever argparse exited with
ExitOnSystemExit(code) == STATE_UNKNOWN

Perfdata_two(m) ==
    get_perfdata("adsb_tracked", m.adsb_tracked, None, None, None, JInt(0), None)
      \o get_perfdata("non_adsb_tracked", m.non_adsb_tracked, None, None, None,
                      JInt(0), None)

\* the perfdata main() builds from the metrics
Perfdata(m) ==
    get_perfdata("adsb_tracked", m.adsb_tracked, None, None, None, JInt(0), None)
      \o get_perfdata("non_adsb_tracked", m.non_adsb_tracked, None, None, None,
                      JInt(0), None)
      \o get_perfdata("sum_tracked", m.sum_tracked, None, None, None, JInt(0), None)

\* the message of the OK branch; concatenating a feed_status that is no str
\* raises TypeError, which the enclosing try turns into UNKNOWN
OkBranch(d, st) ==
    IF st.feed_status.k = "str"
    THEN [msg |-> <<"Feeder: OK - ", ToString(d), "s since last upload",
                    "\nStatus: ", st.feed_status.s, " since ",
                    st.feed_last_connected_time>>,
          state |-> STATE_OK, branch |-> "ok"]
    ELSE [msg |-> ExceptionText("TypeError", "(...)"),
          state |-> STATE_UNKNOWN, branch |-> "exception"]

ThresholdEval_inclusive(d, a, st) ==
    IF d >= a.CRIT
    THEN [msg |-> <<"CRIT threshold reached: ", ToString(d)>>,
          state |-> STATE_CRIT, branch |-> "crit"]
    ELSE IF d >= a.WARN
         THEN [msg |-> <<"WARN threshold reached: ", ToString(d)>>,
               state |-> STATE_WARN, branch |-> "warn"]
         ELSE OkBranch(d, st)

\* check warn and crit thresholds
ThresholdEval(d, a, st) ==
    IF d > a.CRIT
    THEN [msg |-> <<"CRIT threshold reached: ", ToString(d)>>,
          state |-> STATE_CRIT, branch |-> "crit"]
    ELSE IF d > a.WARN
         THEN [msg |-> <<"WARN threshold reached: ", ToString(d)>>,
               state |-> STATE_WARN, branch |-> "warn"]
         ELSE OkBranch(d, st)

Init ==
    /\ pc = "parse_args"
    /\ args = NoArgs
    /\ http = NoHttp
    /\ response = NoBody
    /\ now = 0
    /\ diffSecs = 0
    /\ metrics = NoMetrics
    /\ status = NoStatus
    /\ stdout = <<>>
    /\ exits = <<>>
    /\ httpGets = 0
    /\ steps = <<>>
    /\ failure = "none"
    /\ branch = "none"

\* args = parse_args(), leaving with UNKNOWN when argparse raises SystemExit
ParseArgsStep ==
    /\ pc = "parse_args"
    /\ \E cmd \in CmdLines :
         LET r == parse_args(cmd)
         IN  /\ args' = cmd
             /\ IF r.exit
                THEN /\ stdout' = stdout \o r.out
                     /\ exits' = Append(exits, ExitOnSystemExit(r.code))
                     /\ failure' = IF cmd.kind = "error" THEN "args" ELSE failure
                     /\ pc' = "exited"
                ELSE /\ pc' = "fetch"
                     /\ UNCHANGED <<stdout, exits, failure>>
    /\ UNCHANGED <<http, response, now, diffSecs, metrics, status, httpGets,
                   steps, branch>>

FetchStep_retry ==
    /\ pc = "fetch"
    /\ \E outcome \in HttpOutcomes :
         LET c == coe(run_monitor_check(outcome), STATE_UNKNOWN)
         IN  /\ http' = outcome
             /\ httpGets' = httpGets + 1
             /\ steps' = Append(steps, "fetch")
             /\ IF c.exit /\ httpGets >= 1
                THEN /\ stdout' = Append(stdout, c.out)
                     /\ exits' = Append(exits, c.code)
                     /\ failure' = IF outcome.kind = "refused" THEN "transport"
                                   ELSE "decode"
                     /\ pc' = "exited"
                     /\ UNCHANGED response
                ELSE IF c.exit
                     THEN UNCHANGED <<stdout, exits, failure, pc, response>>
                     ELSE /\ response' = run_monitor_check(outcome).val
                          /\ pc' = "freshness"
                          /\ UNCHANGED <<stdout, exits, failure>>
    /\ UNCHANGED <<args, now, diffSecs, metrics, status, branch>>

\* response = coe(run_monitor_check(path))
FetchStep ==
    /\ pc = "fetch"
    /\ \E outcome \in HttpOutcomes :
         LET c == coe(run_monitor_check(outcome), STATE_UNKNOWN)
         IN  /\ http' = outcome
             /\ httpGets' = httpGets + 1
             /\ steps' = Append(steps, "fetch")
             /\ IF c.exit
                THEN /\ stdout' = Append(stdout, c.out)
                     /\ exits' = Append(exits, c.code)
                     /\ failure' = IF outcome.kind = "refused" THEN "transport"
                                   ELSE "decode"
                     /\ pc' = "exited"
                     /\ UNCHANGED response
                ELSE /\ response' = run_monitor_check(outcome).val
                     /\ pc' = "freshness"
                     /\ UNCHANGED <<stdout, exits, failure>>
    /\ UNCHANGED <<args, now, diffSecs, metrics, status, branch>>

\* diffSecs = coe(get_sec_last_status(response)); utcnow() is read here
FreshnessStep ==
    /\ pc = "freshness"
    /\ \E frac \in 0 .. (Res - 1) :
         LET t == NowSec * Res + frac
             r == get_sec_last_status(response, t)
             c == coe(r, STATE_UNKNOWN)
         IN  /\ now' = t
             /\ steps' = Append(steps, "freshness")
             /\ IF c.exit
                THEN /\ stdout' = Append(stdout, c.out)
                     /\ exits' = Append(exits, c.code)
                     /\ failure' = "freshness"
                     /\ pc' = "exited"
                     /\ UNCHANGED diffSecs
                ELSE /\ diffSecs' = r.val
                     /\ pc' = "metrics"
                     /\ UNCHANGED <<stdout, exits, failure>>
    /\ UNCHANGED <<args, http, response, metrics, status, httpGets, branch>>

\* metrics = coe(get_metrics(response))
MetricsStep ==
    /\ pc = "metrics"
    /\ LET r == get_metrics(response)
           c == coe(r, STATE_UNKNOWN)
       IN  /\ steps' = Append(steps, "metrics")
           /\ IF c.exit
              THEN /\ stdout' = Append(stdout, c.out)
                   /\ exits' = Append(exits, c.code)
                   /\ failure' = "metrics"
                   /\ pc' = "exited"
                   /\ UNCHANGED metrics
              ELSE /\ metrics' = r.val
                   /\ pc' = "status"
                   /\ UNCHANGED <<stdout, exits, failure>>
    /\ UNCHANGED <<args, http, response, now, diffSecs, status, httpGets, branch>>

\* status = coe(get_status(response))
StatusStep ==
    /\ pc = "status"
    /\ LET r == get_status(response)
           c == coe(r, STATE_UNKNOWN)
       IN  /\ steps' = Append(steps, "status")
           /\ IF c.exit
              THEN /\ stdout' = Append(stdout, c.out)
                   /\ exits' = Append(exits, c.code)
                   /\ failure' = "status"
                   /\ pc' = "exited"
                   /\ UNCHANGED status
              ELSE /\ status' = r.val
                   /\ pc' = "evaluate"
                   /\ UNCHANGED <<stdout, exits, failure>>
    /\ UNCHANGED <<args, http, response, now, diffSecs, metrics, httpGets, branch>>

\* perfdata, threshold check and oao(msg, state, perfdata): the call passes
\* no always_ok, so oao runs with its default always_ok=False
EvaluateStep ==
    /\ pc = "evaluate"
    /\ LET e == ThresholdEval(diffSecs, args, status)
           o == oao(e.msg, e.state, Perfdata(metrics), FALSE)
       IN  /\ steps' = Append(steps, "evaluate")
           /\ branch' = e.branch
           /\ failure' = IF e.branch = "exception" THEN "compare" ELSE failure
           /\ stdout' = Append(stdout, o.out)
           /\ exits' = Append(exits, o.code)
           /\ pc' = "exited"
    /\ UNCHANGED <<args, http, response, now, diffSecs, metrics, status, httpGets>>

Next ==
    \/ ParseArgsStep
    \/ FetchStep
    \/ FreshnessStep
    \/ MetricsStep
    \/ StatusStep
    \/ EvaluateStep

Spec == Init /\ [][Next]_vars

\* the interpreter runs main() to its end: no step blocks once it is enabled,
\* the GET being the only blocking call
FairSpec == Spec /\ WF_vars(Next)

(***************************************************************************)
(* Vocabulary of the properties                                            *)
(***************************************************************************)
Exited == pc = "exited"

\* the run went through the threshold evaluation
Evaluated == Exited /\ branch # "none"

StepOrder == <<"fetch", "freshness", "metrics", "status", "evaluate">>

\* the decoded body of the response, when the GET delivered one
Body == http.body

\* a value int() rejects
NonNumeric(x) == x.k \notin {"absent", "int"} /\ ~PyInt(x).ok

Missing(key) == Body.kind # "object" \/ Body.f[key].k = "absent"

\* the first step of the run that fails on the given GET outcome, from the
\* inputs alone
FirstFailing ==
    CASE http.kind \in {"refused", "notjson"} -> "fetch"
      [] http.kind = "json" /\
           (Missing("feed_last_ac_sent_time")
              \/ NonNumeric(Body.f["feed_last_ac_sent_time"])) -> "freshness"
      [] http.kind = "json" /\ ~Missing("feed_last_ac_sent_time")
           /\ ~NonNumeric(Body.f["feed_last_ac_sent_time"])
           /\ (Missing("feed_num_ac_adsb_tracked")
                 \/ Missing("feed_num_ac_non_adsb_tracked")
                 \/ Missing("feed_num_ac_tracked")) -> "metrics"
      [] http.kind = "json" /\ ~Missing("feed_last_ac_sent_time")
           /\ ~NonNumeric(Body.f["feed_last_ac_sent_time"])
           /\ ~Missing("feed_num_ac_adsb_tracked")
           /\ ~Missing("feed_num_ac_non_adsb_tracked")
           /\ ~Missing("feed_num_ac_tracked")
           /\ (Missing("feed_status") \/ Missing("last_rx_connect_status")
                 \/ Missing("feed_last_connected_time")
                 \/ NonNumeric(Body.f["feed_last_connected_time"])) -> "status"
      [] OTHER -> "none"

Diagnostic(step) ==
    CASE step = "fetch" ->
            ExceptionText(IF http.kind = "refused" THEN "ConnectionError"
                          ELSE "JSONDecodeError", "(...)")
      [] step = "freshness" -> <<"ValueError: Last Status could not be parsed">>
      [] step = "metrics" -> <<"ValueError: Metrics could not be parsed">>
      [] step = "status" -> <<"ValueError: Status could not be parsed">>
      [] OTHER -> <<>>

StepIndex(step) == CHOOSE i \in 1 .. Len(StepOrder) : StepOrder[i] = step

(***************************************************************************)
(* C1                                                                      *)
(***************************************************************************)
\* C1 as stated: in a run that reaches the threshold evaluation, e > critical
\* exits 2, warning < e <= critical exits 1, and e <= warning exits 0, for
\* every pair of thresholds.
C1_AsStated ==
    Evaluated =>
        /\ diffSecs > args.CRIT => exits = <<STATE_CRIT>>
        /\ (args.WARN < diffSecs /\ diffSecs <= args.CRIT) => exits = <<STATE_WARN>>
        /\ diffSecs <= args.WARN => exits = <<STATE_OK>>

\* C1 amended: e > critical exits 2 (Critical); warning < e <= critical exits 1
\* (Warning); e <= warning and e <= critical exits 0 (Healthy) when feed_status
\* is a string and 3 (Unknown) when it is not, the Healthy message then
\* raising; a value above critical is never reported as Warning.
C1_Verdict ==
    Evaluated =>
        /\ diffSecs > args.CRIT => (exits = <<STATE_CRIT>> /\ branch = "crit")
        /\ (args.WARN < diffSecs /\ diffSecs <= args.CRIT) =>
              (exits = <<STATE_WARN>> /\ branch = "warn")
        /\ (diffSecs <= args.WARN /\ diffSecs <= args.CRIT
              /\ Body.f["feed_status"].k = "str") =>
              (exits = <<STATE_OK>> /\ branch = "ok")
        /\ (diffSecs <= args.WARN /\ diffSecs <= args.CRIT
              /\ Body.f["feed_status"].k # "str") =>
              (exits = <<STATE_UNKNOWN>> /\ branch = "exception")

\* a run at the boundary e = critical, above warning, that ends Warning
C1_Witness ==
    /\ Evaluated
    /\ args.WARN < args.CRIT
    /\ diffSecs = args.CRIT
    /\ exits = <<STATE_WARN>>

(***************************************************************************)
(* C2                                                                      *)
(***************************************************************************)
\* C2: with --always-ok the process exits 0 whatever the verdict, and what it
\* prints is what the run prints without the flag.
C2_AlwaysOk ==
    (Exited /\ args.kind = "ok" /\ args.ALWAYS_OK) =>
        /\ exits = <<0>>
        /\ Evaluated =>
              stdout = <<oao(ThresholdEval(diffSecs, args, status).msg,
                             ThresholdEval(diffSecs, args, status).state,
                             Perfdata(metrics), FALSE).out>>

(***************************************************************************)
(* C3                                                                      *)
(***************************************************************************)
\* C3: -V/--version prints the version string and exits 0 without a fetch.
C3_Version ==
    (Exited /\ args.kind = "version") =>
        /\ stdout = <<VersionText>>
        /\ httpGets = 0
        /\ exits = <<0>>

RequiredNumeric == {"feed_last_ac_sent_time", "feed_last_connected_time",
                    "feed_num_ac_adsb_tracked", "feed_num_ac_non_adsb_tracked",
                    "feed_num_ac_tracked"}

\* C6: when a required numeric field of the snapshot is absent or non-numeric,
\* an extraction step fails and the run ends Unknown, never Healthy, Warning
\* or Critical.
C6_RequiredFields ==
    (Exited /\ http.kind = "json" /\ Body.kind = "object"
       /\ \E k \in RequiredNumeric : Missing(k) \/ NonNumeric(Body.f[k])) =>
        /\ failure \in {"freshness", "metrics", "status"}
        /\ branch = "none"
        /\ exits = <<STATE_UNKNOWN>>

(***************************************************************************)
(* C7                                                                      *)
(***************************************************************************)
\* the perfdata of one counter as printed: no unit, warn, crit or max, min 0
CounterPerf(label, value) == <<"'", label, "'=", PyStr(value), ";", ";", ";", "0", ";">>

\* the three counters in order, separated by the blank that ends each one but
\* the last (the trailing blank is stripped)
ExpectedPerf ==
    CounterPerf("adsb_tracked", Body.f["feed_num_ac_adsb_tracked"]) \o <<" ">>
      \o CounterPerf("non_adsb_tracked", Body.f["feed_num_ac_non_adsb_tracked"])
      \o <<" ">>
      \o CounterPerf("sum_tracked", Body.f["feed_num_ac_tracked"])

\* C7: every run that reaches the threshold evaluation prints, after the |
\* separator, exactly the perfdata of adsb_tracked, non_adsb_tracked and
\* sum_tracked, in the Healthy, Warning, Critical and exception branches alike.
C7_Perfdata ==
    Evaluated =>
        /\ Len(stdout) = 1
        /\ \E i \in 1 .. Len(stdout[1]) :
              /\ stdout[1][i] = "|"
              /\ \A j \in 1 .. (i - 1) : stdout[1][j] # "|"
              /\ SubSeq(stdout[1], i + 1, Len(stdout[1])) = ExpectedPerf

\* a run whose comparison raised, printed with its perfdata
C7_Witness ==
    /\ Evaluated
    /\ branch = "exception"
    /\ exits = <<STATE_UNKNOWN>>
    /\ Len(stdout) = 1
    /\ \E i \in 1 .. Len(stdout[1]) : stdout[1][i] = "|"

(***************************************************************************)
(* C8                                                                      *)
(***************************************************************************)
\* C8: at most one GET is issued; a failed GET is followed by no further
\* fetch, is printed exactly once and ends the process with Unknown; once the
\* GET has returned the run reaches exactly one exit.
C8_SingleFetch ==
    /\ [](/\ httpGets <= 1
          /\ Len(exits) <= 1
          /\ http.kind \in {"refused", "notjson"} =>
                /\ Exited
                /\ httpGets = 1
                /\ stdout = <<Diagnostic("fetch")>>
                /\ exits = <<STATE_UNKNOWN>>)
    /\ [][httpGets = 1 => httpGets' = 1]_vars
    /\ (httpGets = 1) ~> (Exited /\ Len(exits) = 1)

\* a refused connection, reported once, after which the process has exited
C8_Witness ==
    /\ http.kind = "refused"
    /\ Exited
    /\ httpGets = 1
    /\ Len(stdout) = 1
    /\ exits = <<STATE_UNKNOWN>>

(***************************************************************************)
(* C9                                                                      *)
(***************************************************************************)
\* C9: the steps run in the order fetch, freshness, metrics, status,
\* evaluation; the run stops at the first failing step, which alone is run
\* last, printing only that step's diagnostic without perfdata and exiting 3,
\* the threshold evaluation never being reached.
C9_FirstFailure ==
    /\ Len(steps) <= Len(StepOrder)
    /\ \A i \in 1 .. Len(steps) : steps[i] = StepOrder[i]
    /\ (Exited /\ FirstFailing # "none") =>
          /\ steps = SubSeq(StepOrder, 1, StepIndex(FirstFailing))
          /\ branch = "none"
          /\ stdout = <<Diagnostic(FirstFailing)>>
          /\ \A i \in 1 .. Len(stdout[1]) : stdout[1][i] # "|"
          /\ exits = <<STATE_UNKNOWN>>

\* a malformed status block while the elapsed seconds exceed critical: Unknown
C9_Witness ==
    /\ Exited
    /\ FirstFailing = "status"
    /\ diffSecs > args.CRIT
    /\ steps = <<"fetch", "freshness", "metrics", "status">>
    /\ exits = <<STATE_UNKNOWN>>

(***************************************************************************)
(* C10                                                                     *)
(***************************************************************************)
\* freshness extraction succeeded in this run
FreshnessDone == Len(steps) >= 2 /\ failure # "freshness"

\* the timestamp freshness extraction read
LastSent == PyInt(Body.f["feed_last_ac_sent_time"]).v

\* the distance between the clock and the timestamp, in ticks
Magnitude ==
    IF now >= LastSent * Res THEN now - LastSent * Res ELSE LastSent * Res - now

\* C10: the elapsed seconds are the whole seconds of |now - t|, never
\* negative, and a timestamp as far in the future as another lies in the past
\* yields the same value.
C10_Elapsed ==
    FreshnessDone =>
        /\ diffSecs >= 0
        /\ diffSecs * Res <= Magnitude
        /\ Magnitude < (diffSecs + 1) * Res
        /\ (2 * now) % Res = 0 =>
              DiffInSecs(now, (2 * now) \div Res - LastSent) = diffSecs

\* a timestamp in the future of a clock with a sub-second part, whose mirror
\* image in the past is a whole second too
C10_Witness ==
    /\ FreshnessDone
    /\ LastSent * Res > now
    /\ now % Res # 0
    /\ (2 * now) % Res = 0
    /\ diffSecs = DEFAULT_WARN

====
